---- MODULE Spec2Model ----
(***************************************************************************)
(* The booking workflow of the laundry service frontend                    *)
(* (SchedulePickupForm of the dashboard page) together with the requests   *)
(* it has in flight and the records the backend keeps for it; the          *)
(* Dashboard's tabs, which mount and unmount the form; the load effects of *)
(* the protected pages (Dashboard, invoice page); and the api client       *)
(* (lib/api.ts).                                                           *)
(*                                                                         *)
(* Money is counted in thousandths of a rupee, so that the price table     *)
(* (which holds 249.9 and 199.9) and the factor 1.08 stay exact integers:  *)
(* the arithmetic is exact decimal arithmetic, not IEEE doubles.           *)
(* The optional free-text fields (address.instructions,                    *)
(* special_instructions) take part in no guard and are left out.           *)
(***************************************************************************)
EXTENDS Integers, Sequences, FiniteSets, TLC

VARIABLES
    currentStep,      \* useState(1)
    laundryTypes,     \* useState([]): ids of the service types fetched
    paymentMethods,   \* useState([]): ids of the payment methods fetched
    timeSlots,        \* useState([]): ids of the time slots offered
    selectedDate,     \* useState('')
    formData,         \* useState({address, time_slot_id, ...})
    loading,          \* useState(false)
    pickupRequestId,  \* useState('')
    formFetch,        \* the mount effect's Promise.all: "pending" or "done"
    slotReqs,         \* getTimeSlots requests in flight, per date
    createCall,       \* createPickupRequest requests in flight (their bodies)
    payCall,          \* position of handlePayment and the request it sent
    dbPickupRequests, \* backend: the pickup requests created
    dbPayments,       \* backend: the payments created
    inFlightEvents,   \* user events since the pending createPickupRequest was sent
    redirectTimers,   \* invoice ids of the setTimeout redirects that are armed
    location,         \* the path the browser is at
    activeTab,        \* Dashboard: useState('dashboard')
    tabClicks,        \* how many times the user has changed the tab
    orphans,          \* handlers still awaiting a request of an unmounted form
    token,            \* localStorage 'token': NoToken or the stored string
    pageEffect,       \* position of the protected page's load effect
    pageLoading,      \* the protected page's useState(true)
    pageState,        \* the protected page's other useState values
    pageRequests,     \* the fetches the page's load effect has sent, in order
    lastRequest,      \* api.ts: the request the latest api call sent
    response,         \* api.ts: the response to it
    outcome           \* api.ts: what handleResponse made of the response

formVars == << currentStep, laundryTypes, paymentMethods, timeSlots,
               selectedDate, formData, loading, pickupRequestId, formFetch,
               slotReqs, createCall, payCall, inFlightEvents >>

dbVars == << dbPickupRequests, dbPayments >>

navVars == << redirectTimers, location >>

tabVars == << activeTab, tabClicks, orphans >>

pageVars == << token, pageEffect, pageLoading, pageState, pageRequests >>

apiVars == << lastRequest, response, outcome >>

\* everything outside the booking form and the backend's records
envVars == << navVars, tabVars, pageVars, apiVars >>

vars == << formVars, dbVars, envVars >>

----------------------------------------------------------------------------
\* Bounds of the model

\* largest quantity of one item the user clicks up to
MaxQty == 2
\* payments the backend accepts before the user stops retrying
MaxPayments == 2
\* getTimeSlots requests in flight at one time
MaxSlotReqs == 1
\* clicks and keystrokes that fit in while one createPickupRequest is pending
MaxInFlightEvents == 3

\* Inputs: what the user types and clicks, what the backend returns
AddrVals == {"", "a"}
AddressFields == {"street", "city", "state", "zip_code"}
Dates == {"d1", "d2"}
ItemInputs == {"tshirt", "small_bag"}
\* the items clicked when only the service step is run
ServiceStepItemInputs == {"tshirt", "socks", "small_bag", "large_bag"}
ServerLaundryTypes == << "regular", "bag" >>
ServerPaymentMethods == << "card" >>
PickupIds == << "pr1", "pr2", "pr3" >>
PaymentIds == << "pay1", "pay2", "pay3", "pay4" >>
\* the Dashboard's tabs
Tabs == {"dashboard", "schedule", "orders", "invoices", "profile"}
\* paths of the application
DashboardPath == "/dashboard"
LoginPath == "/login"
HomePath == "/"
\* `/invoice/${id}`
InvoicePath(id) == "/invoice/" \o id
\* localStorage.getItem('token') === null
NoToken == << >>
\* the access tokens the backend issues at login
ServerTokens == {"jwt1", "jwt2"}

----------------------------------------------------------------------------
\* Helpers on maps (JavaScript objects used as dictionaries)

EmptyMap == [x \in {} |-> 0]

Put(f, k, v) == [x \in (DOMAIN f) \cup {k} |-> IF x = k THEN v ELSE f[x]]

Remove(f, k) == [x \in (DOMAIN f) \ {k} |-> f[x]]

Max(a, b) == IF a >= b THEN a ELSE b

SeqToSet(s) == {s[k] : k \in 1..Len(s)}

\* Array.prototype.filter(id => id !== x)
RECURSIVE FilterOut(_, _)
FilterOut(s, x) ==
    IF s = << >> THEN << >>
    ELSE IF Head(s) = x THEN FilterOut(Tail(s), x)
         ELSE << Head(s) >> \o FilterOut(Tail(s), x)

----------------------------------------------------------------------------
\* The static price table

serviceItems ==
    [ regular |-> << [id |-> "tshirt", price |-> 25000],
                     [id |-> "shirt", price |-> 35000],
                     [id |-> "jeans", price |-> 45000],
                     [id |-> "lowers", price |-> 40000],
                     [id |-> "underwear", price |-> 15000],
                     [id |-> "socks", price |-> 10000] >>,
      bag |-> << [id |-> "small_bag", price |-> 150000],
                 [id |-> "medium_bag", price |-> 200000],
                 [id |-> "large_bag", price |-> 249900] >>,
      shoes |-> << [id |-> "sneakers", price |-> 80000],
                   [id |-> "formal_shoes", price |-> 90000],
                   [id |-> "boots", price |-> 100000],
                   [id |-> "sandals", price |-> 60000] >>,
      blanket |-> << [id |-> "single_blanket", price |-> 120000],
                     [id |-> "double_blanket", price |-> 180000],
                     [id |-> "comforter", price |-> 199900],
                     [id |-> "duvet", price |-> 220000] >>,
      dry_cleaning |-> << [id |-> "suit", price |-> 200000],
                          [id |-> "dress", price |-> 150000],
                          [id |-> "coat", price |-> 180000],
                          [id |-> "saree", price |-> 120000],
                          [id |-> "curtains", price |-> 100000] >>,
      ironing |-> << [id |-> "tshirt_iron", price |-> 15000],
                     [id |-> "shirt_iron", price |-> 20000],
                     [id |-> "jeans_iron", price |-> 25000],
                     [id |-> "dress_iron", price |-> 30000],
                     [id |-> "saree_iron", price |-> 40000] >> ]

\* serviceItems[serviceTypeId] || []
ServiceItemsData(serviceTypeId) ==
    IF serviceTypeId \in DOMAIN serviceItems
    THEN serviceItems[serviceTypeId] ELSE << >>

\* serviceItemsData.find(i => i.id === itemId): the index of the first match,
\* 0 when there is none
FindItem(data, itemId) ==
    LET hits == {k \in 1..Len(data) : data[k].id = itemId}
    IN  IF hits = {} THEN 0
        ELSE CHOOSE k \in hits : \A j \in hits : k <= j

\* the inner forEach adding the unit price once, whatever the quantity
ItemAmountOncePerItem(data, itemId, quantity) ==
    LET k == FindItem(data, itemId)
    IN  IF k # 0 /\ quantity > 0 THEN data[k].price ELSE 0

\* one turn of the inner forEach
ItemAmount(data, itemId, quantity) ==
    LET k == FindItem(data, itemId)
    IN  IF k # 0 /\ quantity > 0 THEN data[k].price * quantity ELSE 0

RECURSIVE SumEntries(_, _, _)
SumEntries(data, items, keys) ==
    IF keys = {} THEN 0
    ELSE LET k == CHOOSE k \in keys : TRUE
         IN  ItemAmount(data, k, items[k])
               + SumEntries(data, items, keys \ {k})

RECURSIVE SumTypes(_, _)
SumTypes(si, keys) ==
    IF keys = {} THEN 0
    ELSE LET t == CHOOSE t \in keys : TRUE
         IN  SumEntries(ServiceItemsData(t), si[t], DOMAIN si[t])
               + SumTypes(si, keys \ {t})

calculateTotalPrice(si) == SumTypes(si, DOMAIN si)

totalPrice == calculateTotalPrice(formData.service_items)

\* 8% taken of the total that already includes the tax
TaxOfTotalWithTax(total) == (((total * 108) \div 100) * 8) \div 100

\* totalPrice * 0.08
Tax(total) == (total * 8) \div 100

\* the amount without the factor 1.08
WithTaxForgotten(total) == total

\* totalPrice * 1.08
WithTax(total) == (total * 108) \div 100

\* formData.service_items[serviceTypeId]?.[itemId] || 0
Quantity(si, serviceTypeId, itemId) ==
    IF serviceTypeId \in DOMAIN si /\ itemId \in DOMAIN si[serviceTypeId]
    THEN si[serviceTypeId][itemId] ELSE 0

\* the new quantity without Math.max
NewQuantityUnclamped(currentQuantity, change) == currentQuantity + change

\* Math.max(0, currentQuantity + change)
NewQuantity(currentQuantity, change) == Max(0, currentQuantity + change)

\* updateItemQuantity without the removal of a category left with no items
updateItemQuantityKeepingEmpty(si, serviceTypeId, itemId, change) ==
    LET newQuantity == NewQuantity(Quantity(si, serviceTypeId, itemId), change)
        newServiceItems == IF serviceTypeId \in DOMAIN si THEN si
                           ELSE Put(si, serviceTypeId, EmptyMap)
    IN  IF newQuantity = 0
        THEN Put(newServiceItems, serviceTypeId,
                 Remove(newServiceItems[serviceTypeId], itemId))
        ELSE Put(newServiceItems, serviceTypeId,
                 Put(newServiceItems[serviceTypeId], itemId, newQuantity))

\* the service_items that updateItemQuantity stores
updateItemQuantity(si, serviceTypeId, itemId, change) ==
    LET newQuantity == NewQuantity(Quantity(si, serviceTypeId, itemId), change)
        newServiceItems == IF serviceTypeId \in DOMAIN si THEN si
                           ELSE Put(si, serviceTypeId, EmptyMap)
    IN  IF newQuantity = 0
        THEN LET rest == Remove(newServiceItems[serviceTypeId], itemId)
             IN  IF DOMAIN rest = {}
                 THEN Remove(newServiceItems, serviceTypeId)
                 ELSE Put(newServiceItems, serviceTypeId, rest)
        ELSE Put(newServiceItems, serviceTypeId,
                 Put(newServiceItems[serviceTypeId], itemId, newQuantity))

\* handleToggleService leaving service_items alone when it removes the type
ToggleServiceKeepItems(fd, typeId) ==
    IF typeId \in SeqToSet(fd.service_type_ids)
    THEN [fd EXCEPT !.service_type_ids = FilterOut(@, typeId)]
    ELSE [fd EXCEPT !.service_type_ids = Append(@, typeId)]

\* the formData that handleToggleService stores
ToggleService(fd, typeId) ==
    IF typeId \in SeqToSet(fd.service_type_ids)
    THEN [fd EXCEPT !.service_type_ids = FilterOut(@, typeId),
                    !.service_items = Remove(@, typeId)]
    ELSE [fd EXCEPT !.service_type_ids = Append(@, typeId)]

----------------------------------------------------------------------------
\* What the backend returns

\* GET /time-slots?date=: a fixed list of windows for the date
TimeSlotsFor(date) == << date \o "-morning" >>

\* POST /pickup-requests stores the request under a fresh id, with status
\* pending
NextPickupId == PickupIds[Len(dbPickupRequests) + 1]

\* POST /payments stores the payment under a fresh id
NextPaymentId == PaymentIds[Len(dbPayments) + 1]

\* the invoice the backend synthesizes when it records a payment: it takes
\* the amount from the payment
InvoiceOf(payment) ==
    [ id |-> "inv-" \o payment.id,
      payment_id |-> payment.id,
      pickup_request_id |-> payment.pickup_request_id,
      amount |-> payment.amount ]

\* GET /pickup-requests/{id} answering with no service types
GetPickupRequestWithoutServices(pickupId) ==
    LET k == CHOOSE k \in 1..Len(dbPickupRequests) :
                 dbPickupRequests[k].id = pickupId
    IN  [ id |-> dbPickupRequests[k].id,
          address |-> dbPickupRequests[k].request.address,
          time_slot_id |-> dbPickupRequests[k].request.time_slot_id,
          service_type_ids |-> << >>,
          status |-> dbPickupRequests[k].status ]

\* GET /pickup-requests/{id}: the stored request as a PickupRequestResponse
GetPickupRequest(pickupId) ==
    LET k == CHOOSE k \in 1..Len(dbPickupRequests) :
                 dbPickupRequests[k].id = pickupId
    IN  [ id |-> dbPickupRequests[k].id,
          address |-> dbPickupRequests[k].request.address,
          time_slot_id |-> dbPickupRequests[k].request.time_slot_id,
          service_type_ids |-> dbPickupRequests[k].request.service_type_ids,
          status |-> dbPickupRequests[k].status ]

\* GET /invoices/payment/{payment_id}
InvoiceByPaymentId(paymentId) ==
    LET k == CHOOSE k \in 1..Len(dbPayments) : dbPayments[k].id = paymentId
    IN  InvoiceOf(dbPayments[k])

\* GET /invoices/{id}: is there such an invoice
InvoiceExists(invoiceId) ==
    \E k \in 1..Len(dbPayments) : InvoiceOf(dbPayments[k]).id = invoiceId

\* GET /invoices/{id}
GetInvoice(invoiceId) ==
    LET k == CHOOSE k \in 1..Len(dbPayments) :
                 InvoiceOf(dbPayments[k]).id = invoiceId
    IN  InvoiceOf(dbPayments[k])

\* GET /pickup-requests/{id}: is there such a pickup request
PickupRequestExists(pickupId) ==
    \E k \in 1..Len(dbPickupRequests) : dbPickupRequests[k].id = pickupId

\* GET /pickup-requests
GetPickupRequests ==
    [k \in 1..Len(dbPickupRequests) |-> GetPickupRequest(dbPickupRequests[k].id)]

\* GET /invoices
GetInvoices == [k \in 1..Len(dbPayments) |-> InvoiceOf(dbPayments[k])]

\* GET /users/me
ServerUser == [id |-> "u1", full_name |-> "A"]

----------------------------------------------------------------------------
\* Which controls are enabled

\* the address step's Continue
AddressContinueEnabled ==
    /\ formData.address.street # ""
    /\ formData.address.city # ""
    /\ formData.address.state # ""
    /\ formData.address.zip_code # ""

\* the time-slot step's Continue
TimeSlotContinueEnabled == formData.time_slot_id # ""

\* Continue to Payment disabled only while loading
CreateEnabledAnyTotal == ~loading

\* Continue to Payment not disabled while loading
CreateEnabledWhileLoading == ~(totalPrice = 0)

\* the service step's Continue to Payment
CreateEnabled == ~(totalPrice = 0 \/ loading)

\* a confirm button disabled only while loading
PaymentEnabledAnyMethod == ~loading

\* the payment step's confirm button
PaymentEnabled == ~(formData.payment_method_id = "" \/ loading)

\* the condition under which the auto-redirect effect arms its timer, whose
\* callback is the only caller of onSuccess
AutoRedirectArmed == currentStep = 6 /\ pickupRequestId = ""

\* where a page's load effect is: pc is the fetch it awaits, or "idle",
\* "noToken", "done", "failed"; got is what Promise.all has received so far
PageEffect(pc, got, cause) == [pc |-> pc, got |-> got, cause |-> cause]

\* a fetch the load effect sent: the api function and the id it was given
Fetch(fn, id) == [fn |-> fn, id |-> id]

\* the useState values of a protected page that has just mounted: user,
\* pickupRequests and invoices of the Dashboard; invoice, pickupRequest,
\* serviceTypes and user of the invoice page (null is << >>)
InitialPageState ==
    [ user |-> << >>, pickupRequests |-> << >>, invoices |-> << >>,
      invoice |-> << >>, pickupRequest |-> << >>, serviceTypes |-> << >> ]

\* the fetches of the Dashboard's load effect
DashboardFetches ==
    << Fetch("getCurrentUser", ""), Fetch("getPickupRequests", ""),
       Fetch("getInvoices", "") >>

\* useState({...}) of formData
InitialFormData ==
    [ address |-> [street |-> "", city |-> "", state |-> "", zip_code |-> ""],
      time_slot_id |-> "",
      service_type_ids |-> << >>,
      service_items |-> EmptyMap,
      payment_method_id |-> "" ]

\* the form is on screen: the dashboard page is loaded and shows the
\* schedule tab
FormMounted == location = DashboardPath /\ activeTab = "schedule"

----------------------------------------------------------------------------
\* The state around a form that the Dashboard has just mounted: a user who is
\* logged in, the dashboard page loaded, the schedule tab opened for the
\* first time, no api call traced
FormOpened ==
    /\ redirectTimers = {}
    /\ location = DashboardPath
    /\ activeTab = "schedule"
    /\ tabClicks = 1
    /\ orphans = {}
    /\ token = << "jwt1" >>
    /\ pageEffect = PageEffect("done", {}, "")
    /\ pageLoading = FALSE
    /\ pageState = [InitialPageState EXCEPT !.user = << ServerUser >>]
    /\ pageRequests = DashboardFetches
    /\ lastRequest = << >>
    /\ response = << >>
    /\ outcome = << >>

Init ==
    /\ FormOpened
    /\ currentStep = 1
    /\ laundryTypes = << >>
    /\ paymentMethods = << >>
    /\ timeSlots = << >>
    /\ selectedDate = ""
    /\ formData = InitialFormData
    /\ loading = FALSE
    /\ pickupRequestId = ""
    /\ formFetch = "pending"
    /\ slotReqs = [d \in Dates |-> 0]
    /\ createCall = {}
    /\ payCall = [pc |-> "idle"]
    /\ dbPickupRequests = << >>
    /\ dbPayments = << >>
    /\ inFlightEvents = 0

----------------------------------------------------------------------------
\* The mount effect: getLaundryTypes and getPaymentMethods together

FetchDataSuccess ==
    /\ FormMounted
    /\ formFetch = "pending"
    /\ formFetch' = "done"
    /\ laundryTypes' = ServerLaundryTypes
    /\ paymentMethods' = ServerPaymentMethods
    /\ UNCHANGED envVars
    /\ UNCHANGED << currentStep, timeSlots, selectedDate, formData, loading,
                    pickupRequestId, slotReqs, createCall, payCall,
                    dbPickupRequests, dbPayments,
                    inFlightEvents >>

FetchDataFailure ==
    /\ FormMounted
    /\ formFetch = "pending"
    /\ formFetch' = "done"
    /\ UNCHANGED envVars
    /\ UNCHANGED << currentStep, laundryTypes, paymentMethods, timeSlots,
                    selectedDate, formData, loading, pickupRequestId, slotReqs,
                    createCall, payCall, dbPickupRequests, dbPayments,
                    inFlightEvents >>

----------------------------------------------------------------------------
\* A click or keystroke of the user; those made while a createPickupRequest
\* is pending are counted, up to MaxInFlightEvents
UserEvent ==
    /\ createCall # {} => inFlightEvents < MaxInFlightEvents
    /\ inFlightEvents' = IF createCall # {} THEN inFlightEvents + 1
                         ELSE inFlightEvents

----------------------------------------------------------------------------
\* Step 1: address

EditAddress(field, value) ==
    /\ FormMounted
    /\ currentStep = 1
    /\ formData' = [formData EXCEPT !.address[field] = value]
    /\ UserEvent
    /\ UNCHANGED envVars
    /\ UNCHANGED << currentStep, laundryTypes, paymentMethods, timeSlots,
                    selectedDate, loading, pickupRequestId, formFetch, slotReqs,
                    createCall, payCall, dbPickupRequests, dbPayments >>

\* handleContinue
handleContinue ==
    /\ FormMounted
    /\ currentStep' = currentStep + 1
    /\ UserEvent
    /\ UNCHANGED envVars
    /\ UNCHANGED << laundryTypes, paymentMethods, timeSlots, selectedDate,
                    formData, loading, pickupRequestId, formFetch, slotReqs,
                    createCall, payCall, dbPickupRequests, dbPayments >>

\* handleBack
handleBack ==
    /\ FormMounted
    /\ currentStep' = currentStep - 1
    /\ UserEvent
    /\ UNCHANGED envVars
    /\ UNCHANGED << laundryTypes, paymentMethods, timeSlots, selectedDate,
                    formData, loading, pickupRequestId, formFetch, slotReqs,
                    createCall, payCall, dbPickupRequests, dbPayments >>

ContinueFromAddress ==
    /\ currentStep = 1
    /\ AddressContinueEnabled
    /\ handleContinue

----------------------------------------------------------------------------
\* Step 2: pickup time

\* how many getTimeSlots requests are in flight for the dates ds
RECURSIVE SlotReqsInFlight(_)
SlotReqsInFlight(ds) ==
    IF ds = {} THEN 0
    ELSE LET d == CHOOSE d \in ds : TRUE
         IN  slotReqs[d] + SlotReqsInFlight(ds \ {d})

\* handleDateSelect, and the selectedDate effect that follows a change, while
\* fewer than limit getTimeSlots requests are in flight
DateSelected(date, limit) ==
    /\ FormMounted
    /\ currentStep = 2
    /\ date # selectedDate => SlotReqsInFlight(Dates) < limit
    /\ selectedDate' = date
    /\ formData' = [formData EXCEPT !.time_slot_id = ""]
    /\ slotReqs' = IF date # selectedDate
                   THEN [slotReqs EXCEPT ![date] = @ + 1]
                   ELSE slotReqs
    /\ UserEvent
    /\ UNCHANGED envVars
    /\ UNCHANGED << currentStep, laundryTypes, paymentMethods, timeSlots,
                    loading, pickupRequestId, formFetch, createCall, payCall,
                    dbPickupRequests, dbPayments >>

handleDateSelect(date) == DateSelected(date, MaxSlotReqs)

\* a getTimeSlots request returns: setTimeSlots(slots)
TimeSlotsSuccess(date) ==
    /\ FormMounted
    /\ slotReqs[date] > 0
    /\ slotReqs' = [slotReqs EXCEPT ![date] = @ - 1]
    /\ timeSlots' = TimeSlotsFor(date)
    /\ UNCHANGED envVars
    /\ UNCHANGED << currentStep, laundryTypes, paymentMethods, selectedDate,
                    formData, loading, pickupRequestId, formFetch, createCall,
                    payCall, dbPickupRequests, dbPayments,
                    inFlightEvents >>

\* a getTimeSlots request fails: only logged
TimeSlotsFailure(date) ==
    /\ FormMounted
    /\ slotReqs[date] > 0
    /\ slotReqs' = [slotReqs EXCEPT ![date] = @ - 1]
    /\ UNCHANGED envVars
    /\ UNCHANGED << currentStep, laundryTypes, paymentMethods, timeSlots,
                    selectedDate, formData, loading, pickupRequestId, formFetch,
                    createCall, payCall, dbPickupRequests, dbPayments,
                    inFlightEvents >>

\* a time slot button
SelectTimeSlot(slot) ==
    /\ FormMounted
    /\ currentStep = 2
    /\ selectedDate # ""
    /\ slot \in SeqToSet(timeSlots)
    /\ formData' = [formData EXCEPT !.time_slot_id = slot]
    /\ UserEvent
    /\ UNCHANGED envVars
    /\ UNCHANGED << currentStep, laundryTypes, paymentMethods, timeSlots,
                    selectedDate, loading, pickupRequestId, formFetch, slotReqs,
                    createCall, payCall, dbPickupRequests, dbPayments >>

BackFromTimeSlot ==
    /\ currentStep = 2
    /\ handleBack

ContinueFromTimeSlot ==
    /\ currentStep = 2
    /\ TimeSlotContinueEnabled
    /\ handleContinue

----------------------------------------------------------------------------
\* Step 3: services and items

handleToggleService(typeId) ==
    /\ FormMounted
    /\ currentStep = 3
    /\ typeId \in SeqToSet(laundryTypes)
    /\ formData' = ToggleService(formData, typeId)
    /\ UserEvent
    /\ UNCHANGED envVars
    /\ UNCHANGED << currentStep, laundryTypes, paymentMethods, timeSlots,
                    selectedDate, loading, pickupRequestId, formFetch, slotReqs,
                    createCall, payCall, dbPickupRequests, dbPayments >>

\* the - and + buttons of an item of a selected service type
ClickQuantity(typeId, itemId, change) ==
    /\ FormMounted
    /\ currentStep = 3
    /\ typeId \in SeqToSet(laundryTypes)
    /\ typeId \in SeqToSet(formData.service_type_ids)
    /\ FindItem(ServiceItemsData(typeId), itemId) # 0
    /\ change = -1 => Quantity(formData.service_items, typeId, itemId) # 0
    /\ change = 1 => Quantity(formData.service_items, typeId, itemId) < MaxQty
    /\ formData' = [formData EXCEPT !.service_items =
                        updateItemQuantity(@, typeId, itemId, change)]
    /\ UserEvent
    /\ UNCHANGED envVars
    /\ UNCHANGED << currentStep, laundryTypes, paymentMethods, timeSlots,
                    selectedDate, loading, pickupRequestId, formFetch, slotReqs,
                    createCall, payCall, dbPickupRequests, dbPayments >>

BackFromService ==
    /\ currentStep = 3
    /\ handleBack

\* the body handleCreatePickupRequest sends
RequestData ==
    [ address |-> formData.address,
      time_slot_id |-> formData.time_slot_id,
      service_type_ids |-> formData.service_type_ids,
      service_items |-> formData.service_items ]

\* handleCreatePickupRequest up to its await
handleCreatePickupRequest ==
    /\ FormMounted
    /\ currentStep = 3
    /\ CreateEnabled
    /\ loading' = TRUE
    /\ createCall' = createCall \cup {RequestData}
    /\ UNCHANGED envVars
    /\ UNCHANGED << currentStep, laundryTypes, paymentMethods, timeSlots,
                    selectedDate, formData, pickupRequestId, formFetch,
                    slotReqs, payCall, dbPickupRequests, dbPayments,
                    inFlightEvents >>

\* the request succeeds: the backend stores it, the handler resumes
CreatePickupRequestSuccess(req) ==
    /\ FormMounted
    /\ req \in createCall
    /\ Len(dbPickupRequests) < Len(PickupIds)
    /\ createCall' = createCall \ {req}
    /\ dbPickupRequests' = Append(dbPickupRequests,
                                  [id |-> NextPickupId, request |-> req,
                                   status |-> "pending"])
    /\ pickupRequestId' = NextPickupId
    /\ currentStep' = 5
    /\ loading' = FALSE
    /\ inFlightEvents' = 0
    /\ UNCHANGED envVars
    /\ UNCHANGED << laundryTypes, paymentMethods, timeSlots, selectedDate,
                    formData, formFetch, slotReqs, payCall, dbPayments >>

\* setCurrentStep(5) moved out of the try block: a failure goes on to payment
CreatePickupRequestFailureToPayment(req) ==
    /\ FormMounted
    /\ req \in createCall
    /\ createCall' = createCall \ {req}
    /\ currentStep' = 5
    /\ loading' = FALSE
    /\ inFlightEvents' = 0
    /\ UNCHANGED envVars
    /\ UNCHANGED << laundryTypes, paymentMethods, timeSlots, selectedDate,
                    formData, pickupRequestId, formFetch, slotReqs, payCall,
                    dbPickupRequests, dbPayments >>

\* the request fails: alert, and the finally block
CreatePickupRequestFailure(req) ==
    /\ FormMounted
    /\ req \in createCall
    /\ createCall' = createCall \ {req}
    /\ loading' = FALSE
    /\ inFlightEvents' = 0
    /\ UNCHANGED envVars
    /\ UNCHANGED << currentStep, laundryTypes, paymentMethods, timeSlots,
                    selectedDate, formData, pickupRequestId, formFetch, slotReqs, payCall,
                    dbPickupRequests, dbPayments >>

----------------------------------------------------------------------------
\* Step 5: payment

SelectPaymentMethod(methodId) ==
    /\ FormMounted
    /\ currentStep = 5
    /\ methodId \in SeqToSet(paymentMethods)
    /\ formData' = [formData EXCEPT !.payment_method_id = methodId]
    /\ UserEvent
    /\ UNCHANGED envVars
    /\ UNCHANGED << currentStep, laundryTypes, paymentMethods, timeSlots,
                    selectedDate, loading, pickupRequestId, formFetch, slotReqs,
                    createCall, payCall, dbPickupRequests, dbPayments >>

\* the body handlePayment sends
PaymentData ==
    [ pickup_request_id |-> pickupRequestId,
      payment_method_id |-> formData.payment_method_id,
      amount |-> WithTax(totalPrice) ]

\* handlePayment up to its first await; it returns at once when the total is
\* 0 or no pickup request is stored
handlePayment ==
    /\ FormMounted
    /\ currentStep = 5
    /\ PaymentEnabled
    /\ ~(totalPrice = 0 \/ pickupRequestId = "")
    /\ Len(dbPayments) + Cardinality({o \in orphans : o.pc = "createPayment"})
         < MaxPayments
    /\ loading' = TRUE
    /\ payCall' = [pc |-> "createPayment", request |-> PaymentData]
    /\ UNCHANGED envVars
    /\ UNCHANGED << currentStep, laundryTypes, paymentMethods, timeSlots,
                    selectedDate, formData, pickupRequestId, formFetch,
                    slotReqs, createCall, dbPickupRequests, dbPayments,
                    inFlightEvents >>

\* createPayment succeeds: the backend stores the payment, the handler goes on
\* to getInvoiceByPaymentId
CreatePaymentSuccess ==
    /\ FormMounted
    /\ payCall.pc = "createPayment"
    /\ dbPayments' = Append(dbPayments,
                            [id |-> NextPaymentId] @@ payCall.request)
    /\ payCall' = [pc |-> "getInvoice", request |-> payCall.request,
                   payment_id |-> NextPaymentId]
    /\ UNCHANGED envVars
    /\ UNCHANGED << currentStep, laundryTypes, paymentMethods, timeSlots,
                    selectedDate, formData, loading, pickupRequestId, formFetch,
                    slotReqs, createCall, dbPickupRequests,
                    inFlightEvents >>

\* setCurrentStep(6) moved out of the try block: a failure goes on to
\* confirmation
CreatePaymentFailureToConfirmation ==
    /\ FormMounted
    /\ payCall.pc = "createPayment"
    /\ payCall' = [pc |-> "idle"]
    /\ currentStep' = 6
    /\ loading' = FALSE
    /\ UNCHANGED envVars
    /\ UNCHANGED << laundryTypes, paymentMethods, timeSlots, selectedDate,
                    formData, pickupRequestId, formFetch, slotReqs, createCall,
                    dbPickupRequests, dbPayments, inFlightEvents >>

\* createPayment fails and there is no finally block: loading stays true
CreatePaymentFailureStillLoading ==
    /\ FormMounted
    /\ payCall.pc = "createPayment"
    /\ payCall' = [pc |-> "idle"]
    /\ UNCHANGED envVars
    /\ UNCHANGED << currentStep, laundryTypes, paymentMethods, timeSlots,
                    selectedDate, formData, loading, pickupRequestId,
                    formFetch, slotReqs, createCall, dbPickupRequests,
                    dbPayments, inFlightEvents >>

\* createPayment fails: alert, and the finally block
CreatePaymentFailure ==
    /\ FormMounted
    /\ payCall.pc = "createPayment"
    /\ payCall' = [pc |-> "idle"]
    /\ loading' = FALSE
    /\ UNCHANGED envVars
    /\ UNCHANGED << currentStep, laundryTypes, paymentMethods, timeSlots,
                    selectedDate, formData, pickupRequestId, formFetch, slotReqs, createCall,
                    dbPickupRequests, dbPayments,
                    inFlightEvents >>

\* getInvoiceByPaymentId succeeds and the handler clears pickupRequestId
GetInvoiceSuccessClearingRequest ==
    /\ FormMounted
    /\ payCall.pc = "getInvoice"
    /\ payCall' = [pc |-> "idle"]
    /\ currentStep' = 6
    /\ pickupRequestId' = ""
    /\ redirectTimers' = redirectTimers
                            \cup {InvoiceByPaymentId(payCall.payment_id).id}
    /\ loading' = FALSE
    /\ UNCHANGED << location, tabVars, pageVars, apiVars >>
    /\ UNCHANGED << laundryTypes, paymentMethods, timeSlots, selectedDate,
                    formData, formFetch, slotReqs, createCall,
                    dbPickupRequests, dbPayments, inFlightEvents >>

\* getInvoiceByPaymentId succeeds and no redirect is armed
GetInvoiceSuccessNoRedirect ==
    /\ FormMounted
    /\ payCall.pc = "getInvoice"
    /\ payCall' = [pc |-> "idle"]
    /\ currentStep' = 6
    /\ loading' = FALSE
    /\ UNCHANGED envVars
    /\ UNCHANGED << laundryTypes, paymentMethods, timeSlots, selectedDate,
                    formData, pickupRequestId, formFetch, slotReqs, createCall,
                    dbPickupRequests, dbPayments, inFlightEvents >>

\* getInvoiceByPaymentId succeeds: setCurrentStep(6), the redirect to the
\* invoice is armed, and the finally block
GetInvoiceSuccess ==
    /\ FormMounted
    /\ payCall.pc = "getInvoice"
    /\ payCall' = [pc |-> "idle"]
    /\ currentStep' = 6
    /\ redirectTimers' = redirectTimers
                            \cup {InvoiceByPaymentId(payCall.payment_id).id}
    /\ loading' = FALSE
    /\ UNCHANGED << location, tabVars, pageVars, apiVars >>
    /\ UNCHANGED << laundryTypes, paymentMethods, timeSlots, selectedDate,
                    formData, pickupRequestId, formFetch, slotReqs, createCall,
                    dbPickupRequests, dbPayments,
                    inFlightEvents >>

\* getInvoiceByPaymentId fails: alert, and the finally block
GetInvoiceFailure ==
    /\ FormMounted
    /\ payCall.pc = "getInvoice"
    /\ payCall' = [pc |-> "idle"]
    /\ loading' = FALSE
    /\ UNCHANGED envVars
    /\ UNCHANGED << currentStep, laundryTypes, paymentMethods, timeSlots,
                    selectedDate, formData, pickupRequestId, formFetch,
                    slotReqs, createCall, dbPickupRequests, dbPayments,
                    inFlightEvents >>

----------------------------------------------------------------------------
\* the state of a form: every useState at its initial value
FormReset(fetch) ==
    /\ currentStep' = 1
    /\ laundryTypes' = << >>
    /\ paymentMethods' = << >>
    /\ timeSlots' = << >>
    /\ selectedDate' = ""
    /\ formData' = InitialFormData
    /\ loading' = FALSE
    /\ pickupRequestId' = ""
    /\ formFetch' = fetch
    /\ slotReqs' = [d \in Dates |-> 0]
    /\ createCall' = {}
    /\ payCall' = [pc |-> "idle"]
    /\ inFlightEvents' = 0

\* The callback of handlePayment's setTimeout runs, 3 seconds after it was
\* armed: the browser loads the invoice page, which ends everything that
\* was running on the dashboard page (the form and the other timers; the
\* requests already sent stay with the backend)
RedirectFires(invoiceId) ==
    /\ invoiceId \in redirectTimers
    /\ location = DashboardPath
    /\ location' = InvoicePath(invoiceId)
    /\ redirectTimers' = {}
    /\ FormReset("unmounted")
    /\ UNCHANGED << dbVars, tabVars, pageVars, apiVars >>

----------------------------------------------------------------------------
Next ==
    \/ FetchDataSuccess
    \/ FetchDataFailure
    \/ \E f \in AddressFields, v \in AddrVals : EditAddress(f, v)
    \/ ContinueFromAddress
    \/ \E d \in Dates : handleDateSelect(d)
    \/ \E d \in Dates : TimeSlotsSuccess(d)
    \/ \E d \in Dates : TimeSlotsFailure(d)
    \/ \E d \in Dates : \E s \in SeqToSet(TimeSlotsFor(d)) : SelectTimeSlot(s)
    \/ BackFromTimeSlot
    \/ ContinueFromTimeSlot
    \/ \E t \in SeqToSet(ServerLaundryTypes) : handleToggleService(t)
    \/ \E t \in SeqToSet(ServerLaundryTypes), i \in ItemInputs, c \in {-1, 1} :
          ClickQuantity(t, i, c)
    \/ BackFromService
    \/ handleCreatePickupRequest
    \/ \E r \in createCall : CreatePickupRequestSuccess(r)
    \/ \E r \in createCall : CreatePickupRequestFailure(r)
    \/ \E m \in SeqToSet(ServerPaymentMethods) : SelectPaymentMethod(m)
    \/ handlePayment
    \/ CreatePaymentSuccess
    \/ CreatePaymentFailure
    \/ GetInvoiceSuccess
    \/ GetInvoiceFailure
    \/ \E i \in redirectTimers : RedirectFires(i)

Spec == Init /\ [][Next]_vars

----------------------------------------------------------------------------
\* The service step alone: the form as it arrives there (address filled in,
\* a time slot chosen, the catalog loaded), and then only its service type
\* and quantity controls, over more items than the whole workflow is run with

InitServiceStep ==
    /\ FormOpened
    /\ currentStep = 3
    /\ laundryTypes = ServerLaundryTypes
    /\ paymentMethods = ServerPaymentMethods
    /\ timeSlots = TimeSlotsFor("d1")
    /\ selectedDate = "d1"
    /\ formData = [ address |-> [street |-> "a", city |-> "a", state |-> "a",
                                 zip_code |-> "a"],
                    time_slot_id |-> TimeSlotsFor("d1")[1],
                    service_type_ids |-> << >>,
                    service_items |-> EmptyMap,
                    payment_method_id |-> "" ]
    /\ loading = FALSE
    /\ pickupRequestId = ""
    /\ formFetch = "done"
    /\ slotReqs = [d \in Dates |-> 0]
    /\ createCall = {}
    /\ payCall = [pc |-> "idle"]
    /\ dbPickupRequests = << >>
    /\ dbPayments = << >>
    /\ inFlightEvents = 0

NextServiceStep ==
    \/ \E t \in SeqToSet(ServerLaundryTypes) : handleToggleService(t)
    \/ \E t \in SeqToSet(ServerLaundryTypes), i \in ServiceStepItemInputs,
          c \in {-1, 1} : ClickQuantity(t, i, c)

SpecServiceStep == InitServiceStep /\ [][NextServiceStep]_vars

----------------------------------------------------------------------------
\* The pickup-time step with its neighbours: the form as it arrives there
\* (address filled in, the catalog loaded, no date selected yet), the user
\* selecting dates faster than the getTimeSlots requests complete

\* getTimeSlots requests in flight at one time when dates are selected in
\* quick succession
MaxRacingSlotReqs == 2

InitTimeStep ==
    /\ FormOpened
    /\ currentStep = 2
    /\ laundryTypes = ServerLaundryTypes
    /\ paymentMethods = ServerPaymentMethods
    /\ timeSlots = << >>
    /\ selectedDate = ""
    /\ formData = [InitialFormData EXCEPT
                       !.address = [street |-> "a", city |-> "a",
                                    state |-> "a", zip_code |-> "a"]]
    /\ loading = FALSE
    /\ pickupRequestId = ""
    /\ formFetch = "done"
    /\ slotReqs = [d \in Dates |-> 0]
    /\ createCall = {}
    /\ payCall = [pc |-> "idle"]
    /\ dbPickupRequests = << >>
    /\ dbPayments = << >>
    /\ inFlightEvents = 0

NextTimeStep ==
    \/ ContinueFromAddress
    \/ \E d \in Dates : DateSelected(d, MaxRacingSlotReqs)
    \/ \E d \in Dates : TimeSlotsSuccess(d)
    \/ \E d \in Dates : TimeSlotsFailure(d)
    \/ \E d \in Dates : \E s \in SeqToSet(TimeSlotsFor(d)) : SelectTimeSlot(s)
    \/ BackFromTimeSlot
    \/ ContinueFromTimeSlot
    \/ BackFromService

SpecTimeStep == InitTimeStep /\ [][NextTimeStep]_vars

----------------------------------------------------------------------------
\* The Dashboard's tabs.  The form is rendered only while activeTab is
\* 'schedule': leaving the tab unmounts it, which discards its state, and
\* opening the tab mounts a new form.  The handlers of an unmounted form that
\* were awaiting a request go on when it completes; their state setters then
\* do nothing, the rest of them runs.  (A pending getLaundryTypes,
\* getPaymentMethods or getTimeSlots is followed by state setters only, so it
\* is dropped with the form.)

\* changes of tab the user makes
MaxTabClicks == 3

\* the handlers left awaiting when the form is unmounted
OrphansOfForm ==
    { [pc |-> "createPickupRequest", request |-> r, payment_id |-> "",
       unmounted |-> tabClicks] : r \in createCall }
      \cup (IF payCall.pc = "idle" THEN {}
            ELSE { [pc |-> payCall.pc, request |-> payCall.request,
                    payment_id |-> IF payCall.pc = "getInvoice"
                                   THEN payCall.payment_id ELSE "",
                    unmounted |-> tabClicks] })

\* a form that is only hidden when the tab is left: it keeps its state
SwitchTabHidingForm(tab) ==
    /\ location = DashboardPath
    /\ tab # activeTab
    /\ tabClicks < MaxTabClicks
    /\ activeTab' = tab
    /\ tabClicks' = tabClicks + 1
    /\ UNCHANGED << formVars, orphans >>
    /\ UNCHANGED << dbVars, navVars, pageVars, apiVars >>

\* setActiveTab(tab) of the navigation buttons, and the unmount or mount of
\* the form that the re-render brings
SwitchTab(tab) ==
    /\ location = DashboardPath
    /\ tab # activeTab
    /\ tabClicks < MaxTabClicks
    /\ activeTab' = tab
    /\ tabClicks' = tabClicks + 1
    /\ IF activeTab = "schedule"
         THEN /\ FormReset("unmounted")
              /\ orphans' = orphans \cup OrphansOfForm
         ELSE IF tab = "schedule"
         THEN /\ FormReset("pending")
              /\ UNCHANGED orphans
         ELSE UNCHANGED << formVars, orphans >>
    /\ UNCHANGED << dbVars, navVars, pageVars, apiVars >>

\* createPickupRequest of an unmounted form succeeds: the backend stores it
OrphanCreatePickupRequestSuccess(o) ==
    /\ o \in orphans
    /\ o.pc = "createPickupRequest"
    /\ Len(dbPickupRequests) < Len(PickupIds)
    /\ dbPickupRequests' = Append(dbPickupRequests,
                                  [id |-> NextPickupId, request |-> o.request,
                                   status |-> "pending"])
    /\ orphans' = orphans \ {o}
    /\ UNCHANGED << formVars, dbPayments, navVars, activeTab, tabClicks,
                    pageVars, apiVars >>

\* createPayment of an unmounted form succeeds: the backend stores the
\* payment, the handler goes on to getInvoiceByPaymentId
OrphanCreatePaymentSuccess(o) ==
    /\ o \in orphans
    /\ o.pc = "createPayment"
    /\ dbPayments' = Append(dbPayments, [id |-> NextPaymentId] @@ o.request)
    /\ orphans' = (orphans \ {o})
                     \cup {[o EXCEPT !.pc = "getInvoice",
                                     !.payment_id = NextPaymentId]}
    /\ UNCHANGED << formVars, dbPickupRequests, navVars, activeTab, tabClicks,
                    pageVars, apiVars >>

\* getInvoiceByPaymentId of an unmounted form succeeds: setCurrentStep does
\* nothing, the redirect to the invoice is armed
OrphanGetInvoiceSuccess(o) ==
    /\ o \in orphans
    /\ o.pc = "getInvoice"
    /\ orphans' = orphans \ {o}
    /\ redirectTimers' = IF location = DashboardPath
                         THEN redirectTimers
                                \cup {InvoiceByPaymentId(o.payment_id).id}
                         ELSE redirectTimers
    /\ UNCHANGED << formVars, dbVars, location, activeTab, tabClicks,
                    pageVars, apiVars >>

\* a request of an unmounted form fails: the alert, nothing else
OrphanFailure(o) ==
    /\ o \in orphans
    /\ orphans' = orphans \ {o}
    /\ UNCHANGED << formVars, dbVars, navVars, activeTab, tabClicks,
                    pageVars, apiVars >>

\* the whole workflow with one value for each input
NextOneInput ==
    \/ FetchDataSuccess
    \/ FetchDataFailure
    \/ \E f \in AddressFields : EditAddress(f, "a")
    \/ ContinueFromAddress
    \/ handleDateSelect("d1")
    \/ TimeSlotsSuccess("d1")
    \/ TimeSlotsFailure("d1")
    \/ \E s \in SeqToSet(TimeSlotsFor("d1")) : SelectTimeSlot(s)
    \/ BackFromTimeSlot
    \/ ContinueFromTimeSlot
    \/ handleToggleService("regular")
    \/ \E c \in {-1, 1} : ClickQuantity("regular", "tshirt", c)
    \/ BackFromService
    \/ handleCreatePickupRequest
    \/ \E r \in createCall : CreatePickupRequestSuccess(r)
    \/ \E r \in createCall : CreatePickupRequestFailure(r)
    \/ \E m \in SeqToSet(ServerPaymentMethods) : SelectPaymentMethod(m)
    \/ handlePayment
    \/ CreatePaymentSuccess
    \/ CreatePaymentFailure
    \/ GetInvoiceSuccess
    \/ GetInvoiceFailure
    \/ \E i \in redirectTimers : RedirectFires(i)
    \/ \E o \in orphans : OrphanCreatePickupRequestSuccess(o)
    \/ \E o \in orphans : OrphanCreatePaymentSuccess(o)
    \/ \E o \in orphans : OrphanGetInvoiceSuccess(o)
    \/ \E o \in orphans : OrphanFailure(o)

\* The state of the booking form while no form is mounted
NoForm ==
    /\ currentStep = 1
    /\ laundryTypes = << >>
    /\ paymentMethods = << >>
    /\ timeSlots = << >>
    /\ selectedDate = ""
    /\ formData = InitialFormData
    /\ loading = FALSE
    /\ pickupRequestId = ""
    /\ formFetch = "unmounted"
    /\ slotReqs = [d \in Dates |-> 0]
    /\ createCall = {}
    /\ payCall = [pc |-> "idle"]
    /\ inFlightEvents = 0
    /\ tabClicks = 0
    /\ orphans = {}

\* the Dashboard once it is loaded: its first tab, no form yet
InitTabs ==
    /\ NoForm
    /\ dbPickupRequests = << >>
    /\ dbPayments = << >>
    /\ redirectTimers = {}
    /\ location = DashboardPath
    /\ activeTab = "dashboard"
    /\ token = << "jwt1" >>
    /\ pageEffect = PageEffect("done", {}, "")
    /\ pageLoading = FALSE
    /\ pageState = [InitialPageState EXCEPT !.user = << ServerUser >>]
    /\ pageRequests = DashboardFetches
    /\ lastRequest = << >>
    /\ response = << >>
    /\ outcome = << >>

NextTabs ==
    \/ NextOneInput
    \/ \E t \in Tabs : SwitchTab(t)

SpecTabs == InitTabs /\ [][NextTabs]_vars

\* one form from its mount on, which the user may leave but not open again;
\* the timer armed by setTimeout runs out while the page is loaded
NextOneForm ==
    \/ NextOneInput
    \/ \E t \in Tabs \ {"schedule"} : SwitchTab(t)

SpecOneForm ==
    /\ Init
    /\ [][NextOneForm]_vars
    /\ WF_vars(\E i \in redirectTimers : RedirectFires(i))

----------------------------------------------------------------------------
\* The protected pages: the load effect of the Dashboard and of the invoice
\* page.  A fetch fails for an authentication reason (the token is expired or
\* invalid: 401) or for another one (network, 404, 500).

FailureCauses == {"auth", "other"}
\* the invoice ids whose page the user opens: two that the backend may hold
\* and one that it does not
InvoiceIds == {"inv-pay1", "inv-pay2", "inv-none"}

\* `token ?`, `!token`: null and the empty string are falsy
Truthy(tok) == tok # NoToken /\ tok[1] # ""

\* the statuses a pickup request goes through
Statuses == {"pending", "confirmed", "paid", "completed"}
\* the amounts of the invoices the backend holds: 1.08 x 25, 1.08 x 249.9,
\* and 100
InvoiceAmounts == {27000, 269892, 100000}
\* pickup requests the backend holds when the browser is opened
MaxStoredOrders == 2

\* the body of a pickup request an earlier booking sent
StoredRequest ==
    [ address |-> [street |-> "a", city |-> "a", state |-> "a",
                   zip_code |-> "a"],
      time_slot_id |-> TimeSlotsFor("d1")[1],
      service_type_ids |-> << "regular" >>,
      service_items |-> Put(EmptyMap, "regular", Put(EmptyMap, "tshirt", 1)) ]

\* the backend holds n pickup requests with the statuses st; the first p of
\* them were paid, each with the amount a
StoredOrders(n, st, p, a) ==
    /\ dbPickupRequests = [k \in 1..n |-> [id |-> PickupIds[k],
                                          request |-> StoredRequest,
                                          status |-> st[k]]]
    /\ dbPayments = [k \in 1..p |-> [id |-> PaymentIds[k],
                                    pickup_request_id |-> PickupIds[k],
                                    payment_method_id |-> ServerPaymentMethods[1],
                                    amount |-> a]]

\* the backend of a user who may have booked before
AnyStoredOrders ==
    \E n \in 0..MaxStoredOrders : \E st \in [1..n -> Statuses] :
        \E p \in 0..n : \E a \in InvoiceAmounts : StoredOrders(n, st, p, a)

\* Array.prototype.filter(x => ids.includes(x))
RECURSIVE FilterIn(_, _)
FilterIn(s, ids) ==
    IF s = << >> THEN << >>
    ELSE IF Head(s) \in ids THEN << Head(s) >> \o FilterIn(Tail(s), ids)
         ELSE FilterIn(Tail(s), ids)

\* the browser loads /dashboard: the Dashboard mounts and its effect runs up
\* to the first await
LoadDashboard ==
    /\ pageLoading' = TRUE
    /\ activeTab' = "dashboard"
    /\ pageState' = InitialPageState
    /\ IF ~Truthy(token)
         THEN /\ location' = LoginPath
              /\ pageEffect' = PageEffect("noToken", {}, "")
              /\ pageRequests' = << >>
         ELSE /\ location' = DashboardPath
              /\ pageEffect' = PageEffect("getCurrentUser", {}, "")
              /\ pageRequests' = << Fetch("getCurrentUser", "") >>
    /\ UNCHANGED << formVars, dbVars, redirectTimers, tabClicks, orphans, token,
                    apiVars >>

\* the Dashboard's effect storing the user as soon as getCurrentUser returned
DashboardFetchSuccessStoringEarly ==
    /\ location = DashboardPath
    /\ pageEffect.pc \in {"getCurrentUser", "getPickupRequests", "getInvoices"}
    /\ pageEffect' = PageEffect(
           CASE pageEffect.pc = "getCurrentUser" -> "getPickupRequests"
             [] pageEffect.pc = "getPickupRequests" -> "getInvoices"
             [] pageEffect.pc = "getInvoices" -> "done", {}, "")
    /\ pageRequests' =
           CASE pageEffect.pc = "getCurrentUser"
                  -> Append(pageRequests, Fetch("getPickupRequests", ""))
             [] pageEffect.pc = "getPickupRequests"
                  -> Append(pageRequests, Fetch("getInvoices", ""))
             [] pageEffect.pc = "getInvoices" -> pageRequests
    /\ pageState' =
           CASE pageEffect.pc = "getCurrentUser"
                  -> [pageState EXCEPT !.user = << ServerUser >>]
             [] pageEffect.pc = "getPickupRequests"
                  -> [pageState EXCEPT !.pickupRequests = GetPickupRequests]
             [] pageEffect.pc = "getInvoices"
                  -> [pageState EXCEPT !.invoices = GetInvoices]
    /\ pageLoading' = IF pageEffect.pc = "getInvoices" THEN FALSE
                      ELSE pageLoading
    /\ UNCHANGED << formVars, dbVars, navVars, tabVars, token, apiVars >>

\* the fetch the Dashboard's effect awaits succeeds: the next one is sent, or
\* after the last the three results are stored and loading ends (the
\* backend's records do not change while the page loads)
DashboardFetchSuccess ==
    /\ location = DashboardPath
    /\ pageEffect.pc \in {"getCurrentUser", "getPickupRequests", "getInvoices"}
    /\ pageEffect' = PageEffect(
           CASE pageEffect.pc = "getCurrentUser" -> "getPickupRequests"
             [] pageEffect.pc = "getPickupRequests" -> "getInvoices"
             [] pageEffect.pc = "getInvoices" -> "done", {}, "")
    /\ pageRequests' =
           CASE pageEffect.pc = "getCurrentUser"
                  -> Append(pageRequests, Fetch("getPickupRequests", ""))
             [] pageEffect.pc = "getPickupRequests"
                  -> Append(pageRequests, Fetch("getInvoices", ""))
             [] pageEffect.pc = "getInvoices" -> pageRequests
    /\ pageState' = IF pageEffect.pc = "getInvoices"
                    THEN [pageState EXCEPT !.user = << ServerUser >>,
                                           !.pickupRequests = GetPickupRequests,
                                           !.invoices = GetInvoices]
                    ELSE pageState
    /\ pageLoading' = IF pageEffect.pc = "getInvoices" THEN FALSE
                      ELSE pageLoading
    /\ UNCHANGED << formVars, dbVars, navVars, tabVars, token, apiVars >>

\* it fails: the token is removed and the router goes to /login
DashboardFetchFailure(cause) ==
    /\ location = DashboardPath
    /\ pageEffect.pc \in {"getCurrentUser", "getPickupRequests", "getInvoices"}
    /\ pageEffect' = PageEffect("failed", {}, cause)
    /\ token' = NoToken
    /\ location' = LoginPath
    /\ UNCHANGED << formVars, dbVars, redirectTimers, tabVars, pageLoading,
                    pageState, pageRequests, apiVars >>

\* handleLogout, on the loaded Dashboard
handleLogout ==
    /\ location = DashboardPath
    /\ ~pageLoading
    /\ token' = NoToken
    /\ location' = HomePath
    /\ pageEffect' = PageEffect("idle", {}, "")
    /\ pageState' = InitialPageState
    /\ pageRequests' = << >>
    /\ UNCHANGED << formVars, dbVars, redirectTimers, tabVars, pageLoading,
                    apiVars >>

\* Dashboard: activeOrders counting every pickup request
activeOrdersOfAll(requests) == Len(requests)

\* Dashboard: activeOrders
activeOrders(requests) ==
    Cardinality({k \in 1..Len(requests) :
                    \/ requests[k].status = "pending"
                    \/ requests[k].status = "confirmed"
                    \/ requests[k].status = "paid"})

\* Dashboard: completedOrders
completedOrders(requests) ==
    Cardinality({k \in 1..Len(requests) : requests[k].status = "completed"})

\* the browser loads /invoice/{id}: the page mounts and its effect runs up to
\* Promise.all([getInvoice, getCurrentUser])
LoadInvoice(id) ==
    /\ pageLoading' = TRUE
    /\ pageState' = InitialPageState
    /\ IF ~Truthy(token)
         THEN /\ location' = LoginPath
              /\ pageEffect' = PageEffect("noToken", {}, "")
              /\ pageRequests' = << >>
         ELSE /\ location' = InvoicePath(id)
              /\ pageEffect' = PageEffect("all", {}, "")
              /\ pageRequests' = << Fetch("getInvoice", id),
                                    Fetch("getCurrentUser", "") >>
    /\ UNCHANGED << formVars, dbVars, redirectTimers, tabVars, token,
                    apiVars >>

OnInvoicePage == \E id \in InvoiceIds : location = InvoicePath(id)

\* params.id
invoiceId == CHOOSE id \in InvoiceIds : location = InvoicePath(id)

\* the effect going on to getPickupRequest as soon as getInvoice returned,
\* without waiting for getCurrentUser
InvoiceAllSuccessNotWaiting(fetch) ==
    /\ OnInvoicePage
    /\ pageEffect.pc = "all"
    /\ fetch \notin pageEffect.got
    /\ fetch = "getInvoice" => InvoiceExists(invoiceId)
    /\ IF fetch = "getInvoice"
         THEN /\ pageEffect' = PageEffect("getPickupRequest", {}, "")
              /\ pageState' = [pageState EXCEPT
                                  !.invoice = << GetInvoice(invoiceId) >>]
              /\ pageRequests' =
                     Append(pageRequests,
                            Fetch("getPickupRequest",
                                  GetInvoice(invoiceId).pickup_request_id))
         ELSE /\ pageEffect' = PageEffect("all", pageEffect.got \cup {fetch}, "")
              /\ UNCHANGED << pageState, pageRequests >>
    /\ UNCHANGED << formVars, dbVars, navVars, tabVars, token, pageLoading,
                    apiVars >>

\* one of the two fetches of Promise.all succeeds (getInvoice only for an
\* invoice the backend holds); with both, the invoice and the user are stored
\* and getPickupRequest is sent for the invoice's pickup request
InvoiceAllSuccess(fetch) ==
    /\ OnInvoicePage
    /\ pageEffect.pc = "all"
    /\ fetch \notin pageEffect.got
    /\ fetch = "getInvoice" => InvoiceExists(invoiceId)
    /\ IF pageEffect.got \cup {fetch} = {"getInvoice", "getCurrentUser"}
         THEN /\ pageEffect' = PageEffect("getPickupRequest", {}, "")
              /\ pageState' = [pageState EXCEPT
                                  !.invoice = << GetInvoice(invoiceId) >>,
                                  !.user = << ServerUser >>]
              /\ pageRequests' =
                     Append(pageRequests,
                            Fetch("getPickupRequest",
                                  GetInvoice(invoiceId).pickup_request_id))
         ELSE /\ pageEffect' = PageEffect("all", pageEffect.got \cup {fetch}, "")
              /\ UNCHANGED << pageState, pageRequests >>
    /\ UNCHANGED << formVars, dbVars, navVars, tabVars, token, pageLoading,
                    apiVars >>

\* one of the two fails and the catch block does not end loading
InvoiceAllFailureStillLoading(fetch, cause) ==
    /\ OnInvoicePage
    /\ pageEffect.pc = "all"
    /\ fetch \notin pageEffect.got
    /\ pageEffect' = PageEffect("failed", pageEffect.got, cause)
    /\ UNCHANGED << formVars, dbVars, navVars, tabVars, token, pageLoading,
                    pageState, pageRequests, apiVars >>

\* one of the two fails: the catch block ends loading
InvoiceAllFailure(fetch, cause) ==
    /\ OnInvoicePage
    /\ pageEffect.pc = "all"
    /\ fetch \notin pageEffect.got
    /\ pageEffect' = PageEffect("failed", pageEffect.got, cause)
    /\ pageLoading' = FALSE
    /\ UNCHANGED << formVars, dbVars, navVars, tabVars, token, pageState,
                    pageRequests, apiVars >>

\* getPickupRequest succeeds (for a pickup request the backend holds): it is
\* stored and getLaundryTypes is sent; getLaundryTypes succeeds: the service
\* types of the pickup request are stored and loading ends
InvoiceFetchSuccess ==
    /\ OnInvoicePage
    /\ pageEffect.pc \in {"getPickupRequest", "getLaundryTypes"}
    /\ IF pageEffect.pc = "getPickupRequest"
         THEN LET pickupId == pageRequests[Len(pageRequests)].id
              IN  /\ PickupRequestExists(pickupId)
                  /\ pageEffect' = PageEffect("getLaundryTypes", {}, "")
                  /\ pageState' = [pageState EXCEPT !.pickupRequest =
                                      << GetPickupRequest(pickupId) >>]
                  /\ pageRequests' = Append(pageRequests,
                                            Fetch("getLaundryTypes", ""))
                  /\ UNCHANGED pageLoading
         ELSE /\ pageEffect' = PageEffect("done", {}, "")
              /\ pageState' = [pageState EXCEPT !.serviceTypes =
                                  FilterIn(ServerLaundryTypes,
                                           SeqToSet(pageState.pickupRequest[1]
                                                      .service_type_ids))]
              /\ pageLoading' = FALSE
              /\ UNCHANGED pageRequests
    /\ UNCHANGED << formVars, dbVars, navVars, tabVars, token, apiVars >>

\* getPickupRequest or getLaundryTypes fails: the catch block ends loading
InvoiceFetchFailure(cause) ==
    /\ OnInvoicePage
    /\ pageEffect.pc \in {"getPickupRequest", "getLaundryTypes"}
    /\ pageEffect' = PageEffect("failed", {"getInvoice", "getCurrentUser"},
                                cause)
    /\ pageLoading' = FALSE
    /\ UNCHANGED << formVars, dbVars, navVars, tabVars, token, pageState,
                    pageRequests, apiVars >>

\* Exact fractions n/d, kept in lowest terms
RECURSIVE Gcd(_, _)
Gcd(a, b) == IF b = 0 THEN a ELSE Gcd(b, a % b)

Rat(n, d) == IF n = 0 THEN [n |-> 0, d |-> 1]
             ELSE [n |-> n \div Gcd(n, d), d |-> d \div Gcd(n, d)]

RatAdd(x, y) == Rat(x.n * y.d + y.n * x.d, x.d * y.d)

\* x * (n/d)
RatTimes(x, n, d) == Rat(x.n * n, x.d * d)

\* Number.prototype.toFixed(2) of an amount in thousandths: the nearest
\* number of hundredths, the larger one of two equally near
ToFixed2(x) == (2 * x.n + 10 * x.d) \div (20 * x.d)

\* invoice page: subtotal = invoice.amount / 1.08
InvoiceSubtotal(inv) == RatTimes(Rat(inv.amount, 1), 100, 108)

\* the tax taken as 8% of the amount that already includes it
InvoiceTaxOfTotal(inv) == RatTimes(Rat(inv.amount, 1), 8, 100)

\* invoice page: tax = subtotal * 0.08
InvoiceTax(inv) == RatTimes(InvoiceSubtotal(inv), 8, 100)

\* invoice page: total = invoice.amount
InvoiceTotal(inv) == Rat(inv.amount, 1)

\* what the invoice page renders: the spinner while loading, 'Invoice Not
\* Found' when invoice, pickupRequest or user is null, else the document
InvoiceView ==
    IF pageLoading THEN "spinner"
    ELSE IF pageState.invoice = << >> \/ pageState.pickupRequest = << >>
              \/ pageState.user = << >>
         THEN "notFound"
         ELSE "document"

\* the Logout button of the invoice page, which shows with the document
InvoiceLogout ==
    /\ OnInvoicePage
    /\ InvoiceView = "document"
    /\ token' = NoToken
    /\ location' = LoginPath
    /\ pageEffect' = PageEffect("idle", {}, "")
    /\ pageState' = InitialPageState
    /\ pageRequests' = << >>
    /\ UNCHANGED << formVars, dbVars, redirectTimers, tabVars, pageLoading,
                    apiVars >>

\* the login page stores the access token the backend issued
StoreToken(t) ==
    /\ location = LoginPath
    /\ token' = << t >>
    /\ UNCHANGED << formVars, dbVars, navVars, tabVars, pageEffect,
                    pageLoading, pageState, pageRequests, apiVars >>

\* a browser at the home page, nobody logged in
BrowserOpened ==
    /\ NoForm
    /\ redirectTimers = {}
    /\ location = HomePath
    /\ activeTab = "dashboard"
    /\ token = NoToken
    /\ pageEffect = PageEffect("idle", {}, "")
    /\ pageLoading = TRUE
    /\ pageState = InitialPageState
    /\ pageRequests = << >>
    /\ lastRequest = << >>
    /\ response = << >>
    /\ outcome = << >>

\* the browser opened on a backend that holds nothing yet
InitPages ==
    /\ BrowserOpened
    /\ dbPickupRequests = << >>
    /\ dbPayments = << >>

\* the browser opened on a backend that may hold earlier orders
InitStoredOrders ==
    /\ BrowserOpened
    /\ AnyStoredOrders

\* the browser loads /login
LoadLogin ==
    /\ location' = LoginPath
    /\ pageEffect' = PageEffect("idle", {}, "")
    /\ pageState' = InitialPageState
    /\ pageRequests' = << >>
    /\ UNCHANGED << formVars, dbVars, redirectTimers, tabVars, token,
                    pageLoading, apiVars >>

\* the browser loads the home page
LoadHome ==
    /\ location' = HomePath
    /\ pageEffect' = PageEffect("idle", {}, "")
    /\ pageState' = InitialPageState
    /\ pageRequests' = << >>
    /\ UNCHANGED << formVars, dbVars, redirectTimers, tabVars, token,
                    pageLoading, apiVars >>

NextPages ==
    \/ LoadHome
    \/ LoadLogin
    \/ \E t \in ServerTokens : StoreToken(t)
    \/ LoadDashboard
    \/ DashboardFetchSuccess
    \/ \E c \in FailureCauses : DashboardFetchFailure(c)
    \/ handleLogout
    \/ \E id \in InvoiceIds : LoadInvoice(id)
    \/ \E f \in {"getInvoice", "getCurrentUser"} : InvoiceAllSuccess(f)
    \/ \E f \in {"getInvoice", "getCurrentUser"}, c \in FailureCauses :
          InvoiceAllFailure(f, c)
    \/ InvoiceFetchSuccess
    \/ \E c \in FailureCauses : InvoiceFetchFailure(c)
    \/ InvoiceLogout

SpecPages == InitStoredOrders /\ [][NextPages]_vars

----------------------------------------------------------------------------
\* The invoice page from its mount on, for a user who is logged in and stays
\* on the page; every fetch completes, with a response or with a failure

InitInvoiceLoad ==
    /\ NoForm
    /\ AnyStoredOrders
    /\ redirectTimers = {}
    /\ activeTab = "dashboard"
    /\ \E t \in ServerTokens : token = << t >>
    /\ \E id \in InvoiceIds :
          /\ location = InvoicePath(id)
          /\ pageRequests = << Fetch("getInvoice", id),
                               Fetch("getCurrentUser", "") >>
    /\ pageEffect = PageEffect("all", {}, "")
    /\ pageLoading = TRUE
    /\ pageState = InitialPageState
    /\ lastRequest = << >>
    /\ response = << >>
    /\ outcome = << >>

\* the fetch, or one of the fetches, that the effect awaits completes
InvoiceFetchCompletes ==
    \/ \E f \in {"getInvoice", "getCurrentUser"} : InvoiceAllSuccess(f)
    \/ \E f \in {"getInvoice", "getCurrentUser"}, c \in FailureCauses :
          InvoiceAllFailure(f, c)
    \/ InvoiceFetchSuccess
    \/ \E c \in FailureCauses : InvoiceFetchFailure(c)

NextInvoiceLoad ==
    \/ InvoiceFetchCompletes
    \/ InvoiceLogout

SpecInvoiceLoad ==
    /\ InitInvoiceLoad
    /\ [][NextInvoiceLoad]_vars
    /\ WF_vars(InvoiceFetchCompletes)

----------------------------------------------------------------------------
\* The api client (lib/api.ts): the request each function sends and what
\* handleResponse makes of the response

\* a map from strings to strings with one entry
Entry(k, v) == [x \in {k} |-> v]

NoHeaders == [x \in {} |-> ""]

\* { ...a, ...b }
Spread(a, b) == [x \in (DOMAIN a) \cup (DOMAIN b) |->
                    IF x \in DOMAIN b THEN b[x] ELSE a[x]]

\* `Bearer ${token}`
BearerOf(tok) == "Bearer " \o (IF tok = NoToken THEN "null" ELSE tok[1])

\* an Authorization header whatever localStorage holds
getAuthHeaderAlways(tok) == Entry("Authorization", BearerOf(tok))

\* getAuthHeader, tok being localStorage.getItem('token')
getAuthHeader(tok) ==
    IF Truthy(tok) THEN Entry("Authorization", BearerOf(tok)) ELSE NoHeaders

JsonContentType == Entry("Content-Type", "application/json")
FormContentType == Entry("Content-Type", "application/x-www-form-urlencoded")

\* the api functions
PublicApi == {"register", "login"}
GetApi == {"getCurrentUser", "getLaundryTypes", "getTimeSlots",
           "getPickupRequests", "getPickupRequest", "getPaymentMethods",
           "getPayment", "getInvoices", "getInvoiceByPaymentId", "getInvoice"}
PostApi == {"createPickupRequest", "createPayment"}
ApiFunctions == PublicApi \cup GetApi \cup PostApi
\* the functions whose argument goes into the path
ApiWithId == {"getPickupRequest", "getPayment", "getInvoiceByPaymentId",
              "getInvoice"}

\* arguments: the credentials or user data, an id or a date ("" is no date)
ApiEmails == {"u1", "u2"}
ApiPasswords == {"p1"}
ApiIds == {"", "x1"}

\* the path each function requests
ApiPath(fn, id) ==
    CASE fn = "register" -> "/users"
      [] fn = "login" -> "/token"
      [] fn = "getCurrentUser" -> "/users/me"
      [] fn = "getLaundryTypes" -> "/laundry-types"
      [] fn = "getTimeSlots" ->
            IF id # "" THEN "/time-slots?date=" \o id ELSE "/time-slots"
      [] fn \in {"createPickupRequest", "getPickupRequests"} ->
            "/pickup-requests"
      [] fn = "getPickupRequest" -> "/pickup-requests/" \o id
      [] fn = "getPaymentMethods" -> "/payment-methods"
      [] fn = "createPayment" -> "/payments"
      [] fn = "getPayment" -> "/payments/" \o id
      [] fn = "getInvoices" -> "/invoices"
      [] fn = "getInvoiceByPaymentId" -> "/invoices/payment/" \o id
      [] fn = "getInvoice" -> "/invoices/" \o id

\* the request a function passes to fetch; the body is given by its encoding
\* and its fields (a JSON body by the argument it serialises)
ApiRequest(fn, tok, email, password, id) ==
    [ fn |-> fn,
      method |-> IF fn \in PublicApi \cup PostApi THEN "POST" ELSE "GET",
      path |-> ApiPath(fn, id),
      headers |-> CASE fn = "register" -> JsonContentType
                    [] fn = "login" -> FormContentType
                    [] fn \in PostApi ->
                          Spread(JsonContentType, getAuthHeader(tok))
                    [] OTHER -> getAuthHeader(tok),
      encoding |-> CASE fn = "login" -> "form"
                     [] fn \in {"register"} \cup PostApi -> "json"
                     [] OTHER -> "none",
      body |-> CASE fn = "login" ->
                      [x \in {"username", "password"} |->
                          IF x = "username" THEN email ELSE password]
                 [] fn = "register" -> Entry("json", email)
                 [] fn \in PostApi -> Entry("json", id)
                 [] OTHER -> NoHeaders ]

\* JavaScript values a JSON field holds, each with its String() conversion
JsString(str) == [type |-> "string", str |-> str]
\* an array of one object, as FastAPI sends for a request that fails its
\* validation (422)
JsErrorList == [type |-> "array", str |-> "[object Object]"]

\* response bodies: text that is not JSON, or a JSON object of which the
\* fields detail and message are looked at (<< >>: the field is absent)
NotJson == [isJson |-> FALSE, detail |-> << >>, message |-> << >>]
JsonBody(detail, message) ==
    [isJson |-> TRUE, detail |-> detail, message |-> message]

\* what the backend, or a proxy in front of it, answers
ServerDetails == { << >>, << JsString("Incorrect email or password") >>,
                  << JsErrorList >> }
ServerMessages == { << >>, << JsString("Bad Gateway") >> }
ServerResponses ==
    { [ok |-> TRUE, body |-> JsonBody(<< >>, << >>)] }
      \cup { [ok |-> FALSE, body |-> NotJson] }
      \cup { [ok |-> FALSE, body |-> JsonBody(d, m)] :
                 d \in ServerDetails, m \in ServerMessages }

\* a || b on optional fields: a when it is there and truthy, else b
OrElse(a, b) == IF a # << >> /\ ~(a[1].type = "string" /\ a[1].str = "")
                THEN a ELSE b

\* handleResponse
handleResponse(resp) ==
    IF ~resp.ok
    THEN LET error == IF resp.body.isJson THEN resp.body
                      ELSE JsonBody(<< >>, << >>)
             thrown == OrElse(error.detail,
                              OrElse(error.message,
                                     << JsString("An error occurred") >>))
         IN  [kind |-> "throw", message |-> thrown[1].str, value |-> NotJson]
    ELSE [kind |-> "return", message |-> "", value |-> resp.body]

\* an api function is called and sends its request
ApiCall(fn, email, password, id) ==
    /\ lastRequest' = << ApiRequest(fn, token, email, password, id) >>
    /\ response' = << >>
    /\ outcome' = << >>
    /\ UNCHANGED << formVars, dbVars, navVars, tabVars, pageVars >>

\* the response arrives and the function returns handleResponse(response)
ApiResponse(resp) ==
    /\ lastRequest # << >>
    /\ response = << >>
    /\ response' = << resp >>
    /\ outcome' = << handleResponse(resp) >>
    /\ UNCHANGED << formVars, dbVars, navVars, tabVars, pageVars,
                    lastRequest >>

NextApi ==
    \/ \E fn \in ApiFunctions, e \in ApiEmails, pw \in ApiPasswords,
          id \in ApiIds :
          /\ fn \in ApiWithId => id # ""
          /\ ApiCall(fn, e, pw, id)
    \/ \E resp \in ServerResponses : ApiResponse(resp)
    \/ LoadLogin
    \/ \E t \in ServerTokens : StoreToken(t)
    \/ LoadDashboard
    \/ DashboardFetchSuccess
    \/ \E c \in FailureCauses : DashboardFetchFailure(c)
    \/ handleLogout

SpecApi == InitPages /\ [][NextApi]_vars

----------------------------------------------------------------------------
\* Properties

\* every row of the price table, as << service type, index >>
TableEntries ==
    UNION { { << t, k >> : k \in 1..Len(serviceItems[t]) } :
            t \in DOMAIN serviceItems }

\* unit price x quantity of one row of the table, 0 when none is selected
RowAmount(si, e) ==
    LET item == serviceItems[e[1]][e[2]]
        q == Quantity(si, e[1], item.id)
    IN  IF q > 0 THEN item.price * q ELSE 0

RECURSIVE TableSum(_, _)
TableSum(si, es) ==
    IF es = {} THEN 0
    ELSE LET e == CHOOSE e \in es : TRUE
         IN  RowAmount(si, e) + TableSum(si, es \ {e})

\* what one service type adds to the total
TypeAmount(si, t) ==
    IF t \in DOMAIN si
    THEN SumEntries(ServiceItemsData(t), si[t], DOMAIN si[t]) ELSE 0

\* every quantity stored in a service_items map
StoredQuantities(si) == UNION { { si[t][i] : i \in DOMAIN si[t] } : t \in DOMAIN si }

\* the bodies of the createPickupRequest calls made so far that are pending
\* or were stored
IssuedPickupRequests ==
    createCall \cup { dbPickupRequests[k].request : k \in 1..Len(dbPickupRequests) }

\* the bodies of the createPayment calls that are pending or were stored
IssuedPayments ==
    (IF payCall.pc = "createPayment" THEN { payCall.request } ELSE {})
      \cup { [ pickup_request_id |-> dbPayments[k].pickup_request_id,
               payment_method_id |-> dbPayments[k].payment_method_id,
               amount |-> dbPayments[k].amount ] : k \in 1..Len(dbPayments) }

AddressComplete(address) ==
    /\ address.street # ""
    /\ address.city # ""
    /\ address.state # ""
    /\ address.zip_code # ""

\* C1: for every item selection the form reaches, calculateTotalPrice is the
\* sum over all rows of the price table with a quantity > 0 of unit price x
\* quantity, and the empty selection gives 0.
C1_TotalIsTableSum ==
    /\ calculateTotalPrice(formData.service_items)
         = TableSum(formData.service_items, TableEntries)
    /\ formData.service_items = EmptyMap => totalPrice = 0

\* C1: one T-Shirt, two pairs of socks and two large bags are selected.
C1_Witness ==
    /\ Quantity(formData.service_items, "regular", "tshirt") = 1
    /\ Quantity(formData.service_items, "regular", "socks") = 2
    /\ Quantity(formData.service_items, "bag", "large_bag") = 2
    /\ totalPrice = 544800

\* C2: every createPayment call carries 1.08 x the total of the item selection
\* that was submitted in the createPickupRequest call whose id it references.
C2_PaymentMatchesSubmittedItems ==
    \A p \in IssuedPayments :
        \E k \in 1..Len(dbPickupRequests) :
            /\ dbPickupRequests[k].id = p.pickup_request_id
            /\ p.amount = WithTax(calculateTotalPrice(
                              dbPickupRequests[k].request.service_items))

\* C3: createPayment succeeds at most once with a given pickup_request_id.
C3_AtMostOnePaymentPerRequest ==
    \A i, j \in 1..Len(dbPayments) :
        dbPayments[i].pickup_request_id = dbPayments[j].pickup_request_id
            => i = j

\* C4: the form is at the payment step only if a createPickupRequest call
\* succeeded and the id it returned is the stored pickupRequestId; a failed
\* call stores no request and no id, so it never leads there.
C4_PaymentStepNeedsPickupRequest ==
    currentStep = 5 =>
        /\ pickupRequestId # ""
        /\ \E k \in 1..Len(dbPickupRequests) :
               dbPickupRequests[k].id = pickupRequestId

\* C4: the payment step, reached with no request left pending.
C4_Witness == currentStep = 5 /\ pickupRequestId = "pr1" /\ createCall = {}

\* C5: the form is at the confirmation step only if a createPayment call for
\* the stored pickupRequestId succeeded; a failed call stores no payment, so it
\* never leads there.
C5_ConfirmationNeedsPayment ==
    currentStep = 6 =>
        \E k \in 1..Len(dbPayments) :
            dbPayments[k].pickup_request_id = pickupRequestId

\* C5: the confirmation step.
C5_Witness == currentStep = 6 /\ Len(dbPayments) >= 1

\* C6: for any service type, item and change in {-1, +1}, updateItemQuantity
\* leaves the item at max(0, current + change) and stores no negative
\* quantity; decrementing an item at 0 (or absent) leaves it at 0.
C6_QuantityNeverNegative ==
    \A e \in TableEntries : \A change \in {-1, 1} :
        LET t == e[1]
            i == serviceItems[e[1]][e[2]].id
            current == Quantity(formData.service_items, t, i)
            new == updateItemQuantity(formData.service_items, t, i, change)
        IN  /\ Quantity(new, t, i)
                 = (IF current + change > 0 THEN current + change ELSE 0)
            /\ \A q \in StoredQuantities(new) : q >= 0
            /\ (current = 0 /\ change = -1) => Quantity(new, t, i) = 0

\* C6: a selected service type with one item at 0 (its - button is the
\* clamped case) next to items that were counted up.
C6_Witness ==
    /\ currentStep = 3
    /\ "regular" \in SeqToSet(formData.service_type_ids)
    /\ Quantity(formData.service_items, "regular", "tshirt") = 0
    /\ Quantity(formData.service_items, "regular", "socks") = 1
    /\ Quantity(formData.service_items, "bag", "small_bag") = 2

\* C7: toggling off a selected service type removes it from service_type_ids
\* and removes its items from service_items, so it adds 0 to the total, also
\* after it is selected again.
C7_ToggleOffClearsItems ==
    \A t \in SeqToSet(formData.service_type_ids) :
        LET off == ToggleService(formData, t)
            again == ToggleService(off, t)
        IN  /\ t \notin SeqToSet(off.service_type_ids)
            /\ t \notin DOMAIN off.service_items
            /\ TypeAmount(off.service_items, t) = 0
            /\ calculateTotalPrice(off.service_items)
                 = totalPrice - TypeAmount(formData.service_items, t)
            /\ t \in SeqToSet(again.service_type_ids)
            /\ TypeAmount(again.service_items, t) = 0
            /\ calculateTotalPrice(again.service_items)
                 = calculateTotalPrice(off.service_items)

\* C7: a selected service type that has items, next to another one with items.
C7_Witness ==
    /\ currentStep = 3
    /\ formData.service_type_ids = << "bag", "regular" >>
    /\ Quantity(formData.service_items, "regular", "tshirt") = 2
    /\ Quantity(formData.service_items, "bag", "large_bag") = 1

\* C8: the address step's Continue is enabled if and only if street, city,
\* state and zip_code are all non-empty; consequently in every state with
\* currentStep >= 2 all four address fields are non-empty.
C8_AddressCompleteAfterAddressStep ==
    /\ AddressContinueEnabled <=> AddressComplete(formData.address)
    /\ currentStep >= 2 => AddressComplete(formData.address)

\* C9: every createPickupRequest call carries four non-empty address fields,
\* a non-empty time_slot_id and an item selection whose total is greater
\* than 0.
C9_PickupRequestsComplete ==
    \A r \in IssuedPickupRequests :
        /\ AddressComplete(r.address)
        /\ r.time_slot_id # ""
        /\ calculateTotalPrice(r.service_items) > 0

\* C9: a request is pending while the user has gone back to the address step.
C9_Witness == createCall # {} /\ currentStep = 1 /\ loading

\* C10: every date selection resets time_slot_id to empty, and the form leaves
\* the time-slot step forward only with a time slot chosen.
C10_LeavesTimeStepWithSlot ==
    [][ /\ \A d \in Dates :
              handleDateSelect(d) => formData'.time_slot_id = ""
        /\ (currentStep = 2 /\ currentStep' > 2)
              => (TimeSlotContinueEnabled /\ formData.time_slot_id # "")
      ]_vars

\* C11: every createPayment call carries a payment method the user chose
\* among those offered (so a non-empty one), the id that a successful
\* createPickupRequest returned, and an amount greater than 0.
C11_PaymentCallsComplete ==
    \A p \in IssuedPayments :
        /\ p.payment_method_id # ""
        /\ p.payment_method_id \in SeqToSet(ServerPaymentMethods)
        /\ p.pickup_request_id # ""
        /\ \E k \in 1..Len(dbPickupRequests) :
               dbPickupRequests[k].id = p.pickup_request_id
        /\ p.amount > 0

\* C11: a createPayment call is pending, the first one of the form.
C11_Witness == payCall.pc = "createPayment" /\ Len(dbPayments) = 0

\* a step in which a createPickupRequest call ends without a stored request
CreatePickupRequestFails ==
    /\ createCall # {}
    /\ createCall' # createCall
    /\ createCall' \subseteq createCall
    /\ dbPickupRequests' = dbPickupRequests

\* a step in which a createPayment call ends without a stored payment
CreatePaymentFails ==
    /\ payCall.pc = "createPayment"
    /\ payCall'.pc # "createPayment"
    /\ dbPayments' = dbPayments

\* C14: a failure of createPickupRequest or createPayment leaves the step,
\* pickupRequestId and the form data as they are and loading false, with no
\* request of the two in flight; a new one is issued only by the user's
\* click on Continue to Payment or on the confirm button.
C14_FailureIsTerminal ==
    [][ /\ (CreatePickupRequestFails \/ CreatePaymentFails)
              => /\ currentStep' = currentStep
                 /\ pickupRequestId' = pickupRequestId
                 /\ formData' = formData
                 /\ loading' = FALSE
                 /\ createCall' = {}
                 /\ payCall'.pc = "idle"
        /\ createCall' \ createCall # {} => handleCreatePickupRequest
        /\ (payCall.pc = "idle" /\ payCall'.pc # "idle") => handlePayment
      ]_vars

\* C14: a createPickupRequest call is pending while the user has gone one
\* step back; its failure is the case of the claim.
C14_Witness == createCall # {} /\ currentStep = 2 /\ inFlightEvents = 1

\* 2 T-Shirts and 1 Small Bag
TwoTShirtsOneSmallBag ==
    /\ DOMAIN formData.service_items = {"regular", "bag"}
    /\ DOMAIN formData.service_items["regular"] = {"tshirt"}
    /\ DOMAIN formData.service_items["bag"] = {"small_bag"}
    /\ formData.service_items["regular"]["tshirt"] = 2
    /\ formData.service_items["bag"]["small_bag"] = 1

C18_ReopenedFormIsEmpty ==
    [][ (activeTab # "schedule" /\ activeTab' = "schedule")
            => /\ currentStep' = 1
               /\ formData' = InitialFormData
               /\ selectedDate' = ""
               /\ pickupRequestId' = ""
               /\ loading' = FALSE
      ]_vars

\* C18: the schedule tab is open for the second time, after the first form
\* had created a pickup request.
C18_Witness ==
    /\ activeTab = "schedule"
    /\ tabClicks = 3
    /\ currentStep = 1
    /\ Len(dbPickupRequests) = 1

C20_OnlyAdjacentSteps ==
    [][ (FormMounted' /\ currentStep' # currentStep)
            => << currentStep, currentStep' >>
                 \in { << 1, 2 >>, << 2, 1 >>, << 2, 3 >>, << 3, 2 >>,
                       << 3, 5 >>, << 5, 6 >> }
      ]_vars

\* C12: on the Dashboard and on the invoice page, a load effect that found
\* no token, and one whose fetch failed on authentication, have sent the
\* browser to the login page.
C12_AuthFailureRedirectsToLogin ==
    /\ pageEffect.pc = "noToken" => location = LoginPath
    /\ (pageEffect.pc = "failed" /\ pageEffect.cause = "auth")
          => location = LoginPath

\* C13: for a response that is not 2xx handleResponse throws an Error whose
\* message is the body's detail field if there is one, else its message
\* field, else 'An error occurred' (also when the body is not JSON); for a
\* 2xx response it returns the parsed body.
C13_ErrorMessageIsDetail ==
    outcome # << >> =>
        LET body == response[1].body
            expected ==
                IF body.isJson /\ body.detail # << >> THEN body.detail[1]
                ELSE IF body.isJson /\ body.message # << >>
                     THEN body.message[1]
                     ELSE JsString("An error occurred")
        IN  IF response[1].ok
            THEN outcome[1].kind = "return" /\ outcome[1].value = body
            ELSE /\ outcome[1].kind = "throw"
                 /\ JsString(outcome[1].message) = expected

\* C15: a call of any api function but register and login sends
\* 'Authorization: Bearer <token>' with the stored token if and only if a
\* token is stored; register and login send no Authorization header, and
\* login sends username and password form-encoded.
C15_AuthorizationHeader ==
    [][ lastRequest' # lastRequest =>
          LET req == lastRequest'[1]
              sent == "Authorization" \in DOMAIN req.headers
          IN  IF req.fn \in PublicApi
              THEN /\ ~sent
                   /\ req.fn = "login" =>
                         /\ req.encoding = "form"
                         /\ req.headers["Content-Type"]
                              = "application/x-www-form-urlencoded"
                         /\ DOMAIN req.body = {"username", "password"}
              ELSE /\ sent <=> token # NoToken
                   /\ sent => req.headers["Authorization"]
                                = "Bearer " \o token[1]
      ]_vars

\* C15: createPayment was called with the second token stored.
C15_Witness ==
    /\ lastRequest # << >>
    /\ lastRequest[1].fn = "createPayment"
    /\ lastRequest[1].headers
         = Spread(JsonContentType, Entry("Authorization", "Bearer jwt2"))
    /\ token = << "jwt2" >>

\* C21: once no getTimeSlots request is pending, the time slots offered are
\* those of the currently selected date, and a time slot the user has chosen
\* is one of the slots of the selected date.
C21_SlotsAreOfSelectedDate ==
    (selectedDate # "" /\ SlotReqsInFlight(Dates) = 0) =>
        /\ SeqToSet(timeSlots) \subseteq SeqToSet(TimeSlotsFor(selectedDate))
        /\ formData.time_slot_id # ""
              => formData.time_slot_id \in SeqToSet(TimeSlotsFor(selectedDate))

\* C22: every quantity stored in service_items is an integer >= 1, no
\* category key maps to an empty item map, and every category key of
\* service_items is one of service_type_ids.
C22_ServiceItemsWellFormed ==
    /\ \A q \in StoredQuantities(formData.service_items) : q \in Nat /\ q >= 1
    /\ \A t \in DOMAIN formData.service_items :
           DOMAIN formData.service_items[t] # {}
    /\ DOMAIN formData.service_items
          \subseteq SeqToSet(formData.service_type_ids)

\* C22: both categories are selected; of the first one item is left after
\* clicks up and down, of the second none.
C22_Witness ==
    /\ currentStep = 3
    /\ formData.service_type_ids = << "regular", "bag" >>
    /\ DOMAIN formData.service_items = {"regular"}
    /\ DOMAIN formData.service_items["regular"] = {"socks"}
    /\ formData.service_items["regular"]["socks"] = 2

\* the last fetch the page's load effect sent
LastFetch == pageRequests[Len(pageRequests)]

\* C23: the invoice page sends getPickupRequest only after getInvoice and
\* getCurrentUser have both succeeded, for the pickup_request_id of the
\* fetched invoice, and getLaundryTypes only after getPickupRequest
\* succeeded; it renders the document only when invoice, pickup request and
\* user are loaded, and 'Invoice Not Found' once one of their fetches failed.
C23_InvoiceFetchOrder ==
    OnInvoicePage =>
        /\ \A k \in 1..Len(pageRequests) :
              /\ pageRequests[k].fn = "getPickupRequest" =>
                    /\ k = 3
                    /\ pageState.user = << ServerUser >>
                    /\ pageState.invoice = << GetInvoice(invoiceId) >>
                    /\ pageRequests[k].id
                         = pageState.invoice[1].pickup_request_id
              /\ pageRequests[k].fn = "getLaundryTypes" =>
                    /\ k = 4
                    /\ pageState.pickupRequest
                         = << GetPickupRequest(pageRequests[3].id) >>
        /\ InvoiceView = "document" =>
              /\ Len(pageRequests) = 4
              /\ pageState.invoice # << >>
              /\ pageState.pickupRequest # << >>
              /\ pageState.user # << >>
        /\ (pageEffect.pc = "failed" /\ LastFetch.fn # "getLaundryTypes")
              => InvoiceView = "notFound"
        /\ pageEffect.pc \in {"all", "getPickupRequest", "getLaundryTypes"}
              => InvoiceView = "spinner"

\* C23: the invoice of the second payment is on screen after all four
\* fetches.
C23_Witness ==
    /\ location = InvoicePath("inv-pay2")
    /\ pageEffect.pc = "done"
    /\ InvoiceView = "document"
    /\ pageState.serviceTypes = << "regular" >>
    /\ LastFetch = Fetch("getLaundryTypes", "")

\* C24: on the invoice page with a stored token, when every fetch completes,
\* loading becomes false: after the last fetch succeeded and after the first
\* one that failed.
C24_LoadingEnds == pageLoading ~> ~pageLoading

\* C24: getInvoice failed after getCurrentUser had succeeded, and the spinner
\* is gone.
C24_Witness ==
    /\ OnInvoicePage
    /\ pageEffect.pc = "failed"
    /\ pageEffect.got = {"getCurrentUser"}
    /\ ~pageLoading

\* the itemized breakdowns an invoice may carry: none, or one row
Breakdowns == { << >>, << [quantity |-> 1, total_price |-> 25000] >> }

\* C25: the invoice page shows the invoice's amount as Total, amount / 1.08
\* as Subtotal and Subtotal x 0.08 as Tax; Subtotal + Tax = Total, as exact
\* values and as the amounts displayed with two decimals, with and without
\* an itemized breakdown.
C25_InvoiceTotalsAddUp ==
    (OnInvoicePage /\ InvoiceView = "document") =>
        \A b \in Breakdowns :
            LET inv == [itemized_breakdown |-> b] @@ pageState.invoice[1]
            IN  /\ InvoiceTotal(inv) = Rat(GetInvoice(invoiceId).amount, 1)
                /\ RatTimes(InvoiceSubtotal(inv), 108, 100) = InvoiceTotal(inv)
                /\ InvoiceTax(inv) = RatTimes(InvoiceSubtotal(inv), 8, 100)
                /\ RatAdd(InvoiceSubtotal(inv), InvoiceTax(inv))
                     = InvoiceTotal(inv)
                /\ ToFixed2(InvoiceSubtotal(inv)) + ToFixed2(InvoiceTax(inv))
                     = ToFixed2(InvoiceTotal(inv))

\* C25: an invoice of 100.00 is on screen: Subtotal 92.59, Tax 7.41.
C25_Witness ==
    /\ OnInvoicePage
    /\ InvoiceView = "document"
    /\ pageState.invoice[1].amount = 100000
    /\ ToFixed2(InvoiceSubtotal(pageState.invoice[1])) = 9259
    /\ ToFixed2(InvoiceTax(pageState.invoice[1])) = 741

\* C26: on the Dashboard loading becomes false only after getCurrentUser,
\* getPickupRequests and getInvoices have succeeded in this order, and then
\* user, pickupRequests and invoices are those fetched; when one of them
\* fails none is set, the token is removed and the browser goes to /login.
\* So the Dashboard shows its content only with a user.
C26_DashboardAllOrNothing ==
    [][ /\ (location' = DashboardPath /\ ~pageLoading') =>
              /\ pageRequests' = DashboardFetches
              /\ pageState'.user = << ServerUser >>
              /\ pageState'.pickupRequests = GetPickupRequests
              /\ pageState'.invoices = GetInvoices
        /\ (location = DashboardPath /\ pageEffect'.pc = "failed") =>
              /\ pageLoading'
              /\ pageState' = InitialPageState
              /\ token' = NoToken
              /\ location' = LoginPath
      ]_vars

\* C26: the Dashboard shows two pickup requests and one invoice.
C26_Witness ==
    /\ location = DashboardPath
    /\ ~pageLoading
    /\ pageState.user # << >>
    /\ Len(pageState.pickupRequests) = 2
    /\ Len(pageState.invoices) = 1

\* C27: activeOrders counts the pickup requests that are pending, confirmed
\* or paid, completedOrders those that are completed; when every status is
\* one of these four, the two counts add up to the number of pickup requests
\* and each request is counted once.
C27_OrdersCountedOnce ==
    LET requests == pageState.pickupRequests
        statusesOf == {requests[k].status : k \in 1..Len(requests)}
    IN  /\ activeOrders(requests)
             = Cardinality({k \in 1..Len(requests) :
                   requests[k].status \in {"pending", "confirmed", "paid"}})
        /\ completedOrders(requests)
             = Cardinality({k \in 1..Len(requests) :
                   requests[k].status = "completed"})
        /\ statusesOf \subseteq Statuses =>
              /\ activeOrders(requests) + completedOrders(requests)
                   = Len(requests)
              /\ \A k \in 1..Len(requests) :
                    activeOrders(<< requests[k] >>)
                      + completedOrders(<< requests[k] >>) = 1

\* C27: the Dashboard shows one paid and one completed pickup request.
C27_Witness ==
    /\ location = DashboardPath
    /\ ~pageLoading
    /\ Len(pageState.pickupRequests) = 2
    /\ pageState.pickupRequests[1].status = "paid"
    /\ pageState.pickupRequests[2].status = "completed"
    /\ activeOrders(pageState.pickupRequests) = 1
    /\ completedOrders(pageState.pickupRequests) = 1

\* C28: at the confirmation step pickupRequestId is non-empty, and it is
\* cleared only when the form goes (unmount, page unload); so the
\* auto-redirect effect never arms its timer and onSuccess is never called.
C28_AutoRedirectNeverArmed ==
    [][ /\ currentStep' = 6 => pickupRequestId' # ""
        /\ ~AutoRedirectArmed'
        /\ (pickupRequestId # "" /\ pickupRequestId' # pickupRequestId)
              => (~FormMounted' \/ formFetch' = "pending")
      ]_vars

\* C28: the confirmation step of a form that holds its pickup request's id,
\* with the redirect to the invoice armed.
C28_Witness ==
    /\ FormMounted
    /\ currentStep = 6
    /\ pickupRequestId = "pr1"
    /\ redirectTimers = {"inv-pay1"}

\* the createPickupRequest and createPayment requests of the form in flight
InFlightCreates ==
    Cardinality(createCall) + (IF payCall.pc = "createPayment" THEN 1 ELSE 0)

\* C29 as stated: at most one createPickupRequest or createPayment request of
\* the form is in flight, loading is true exactly while one is, and the
\* controls that start them are disabled while loading is true.
C29_LoadingExactlyWhileCreating ==
    /\ InFlightCreates <= 1
    /\ loading <=> InFlightCreates = 1
    /\ loading => ~CreateEnabled /\ ~PaymentEnabled

\* C29, amended: at most one createPickupRequest or createPayment request of
\* the form is in flight; loading is true exactly while one of them, or the
\* getInvoiceByPaymentId that handlePayment sends after createPayment, is
\* pending; the controls that start them are disabled while loading is true.
C29_OneRequestInFlight ==
    /\ InFlightCreates <= 1
    /\ createCall # {} => payCall.pc = "idle"
    /\ loading <=> (createCall # {} \/ payCall.pc # "idle")
    /\ loading => ~CreateEnabled /\ ~PaymentEnabled

\* C29: createPayment is pending, loading is true and the confirm button is
\* disabled.
C29_Witness ==
    /\ FormMounted
    /\ payCall.pc = "createPayment"
    /\ createCall = {}
    /\ loading
    /\ ~PaymentEnabled

\* C30: on the payment step the three amounts displayed with two decimals,
\* Subtotal = total, Tax = total x 0.08 and Total = total x 1.08, satisfy
\* Subtotal + Tax = Total in exact decimal arithmetic (the total is a sum of
\* prices with one decimal, so 0.08 and 1.08 times it have three).
C30_DisplayedTotalsAddUp ==
    /\ (totalPrice * 8) % 100 = 0
    /\ (totalPrice * 108) % 100 = 0
    /\ ToFixed2(Rat(totalPrice, 1)) + ToFixed2(Rat(Tax(totalPrice), 1))
         = ToFixed2(Rat(WithTax(totalPrice), 1))

\* C30: one large bag and one T-Shirt: 274.90 + 21.99 = 296.89.
C30_Witness ==
    /\ Quantity(formData.service_items, "bag", "large_bag") = 1
    /\ Quantity(formData.service_items, "regular", "tshirt") = 1
    /\ ToFixed2(Rat(totalPrice, 1)) = 27490
    /\ ToFixed2(Rat(Tax(totalPrice), 1)) = 2199
    /\ ToFixed2(Rat(WithTax(totalPrice), 1)) = 29689

====
